---- MODULE Spec2Model ----
(***************************************************************************)
(* The job processing pipeline of the lease-quote backend: the Supabase    *)
(* job store (src/src/supabase.js) and the polling worker                  *)
(* (src/src/drivaliaHybridWorker.js, DrivaliaHybridWorker; the other       *)
(* workers repeat its poll/processJob pattern).                            *)
(*                                                                         *)
(* One step of the model is one resumption of an async function: the code  *)
(* between two awaits runs without interleaving (Node's event loop), and   *)
(* a store or vendor call takes effect at the step in which its awaiting   *)
(* caller resumes.                                                         *)
(***************************************************************************)
EXTENDS Integers, Sequences, FiniteSets, Bags, TLC

\* ------------------------------------------------------------------ bounds
\* poll() invocations (the initial one and the timer's) in one run
MaxPolls == 3
\* errors the environment raises in one run (vendor throws, store errors,
\* login failures, session expiries)
MaxFaults == 2

\* --------------------------------------------------------------- constants
\* const MAX_CONCURRENT_JOBS = parseInt(process.env.MAX_CONCURRENT_JOBS) || 1
\* (|| 3 in the API worker): an environment tunable; the worker is run with
\* MAX_CONCURRENT_JOBS=2.
MAX_CONCURRENT_JOBS == 2

\* the worker instances that may be deployed against the one store
Workers == {1, 2}

ALL == "ALL"

\* parseInt over the term and mileage values a job's config may carry
ParseInt(s) ==
  CASE s = "24" -> 24 [] s = "36" -> 36 [] s = "48" -> 48 [] s = "60" -> 60
    [] s = "5000" -> 5000 [] s = "8000" -> 8000 [] s = "10000" -> 10000
    [] s = "12000" -> 12000 [] s = "15000" -> 15000 [] s = "20000" -> 20000
    [] s = "25000" -> 25000 [] s = "30000" -> 30000

\* the 'ALL' list of terms without its last entry
TermsWithoutSixty(config) ==
  IF config.terms = ALL THEN <<24, 36, 48>> ELSE <<ParseInt(config.terms)>>

\* const terms = config.terms === 'ALL' ? [24, 36, 48, 60] : [parseInt(config.terms)]
Terms(config) ==
  IF config.terms = ALL THEN <<24, 36, 48, 60>> ELSE <<ParseInt(config.terms)>>

\* const mileages = config.mileages === 'ALL' ? [5000, ...] : [parseInt(config.mileages)]
Mileages(config) ==
  IF config.mileages = ALL
    THEN <<5000, 8000, 10000, 12000, 15000, 20000, 25000, 30000>>
    ELSE <<ParseInt(config.mileages)>>

VARIABLES
  jobs,            \* store, table drivalia_jobs: job id -> row
  quotes,          \* store, table drivalia_quotes: the rows, in insertion order
  phase,           \* per worker instance: "absent", "new" (constructed), "running"
  processingJobs,  \* per worker instance: this.processingJobs (a Set of job ids)
  cookies,         \* per worker instance: this.cookies, "null" or "set"
  isLoggedIn,      \* per worker instance: this.isLoggedIn (simple browser worker)
  sessionLive,     \* per worker instance: the vendor still honours its cookies
  polls,           \* the poll() calls in flight (a bag), each awaiting getPendingJobs
  nPolls,          \* poll() calls made so far
  tasks,           \* the processJob() calls made so far (a bag of call records)
  faults,          \* environment errors raised so far
  automation_logs, \* database, table automation_logs: the drivalia_quotes rows, by id
  background       \* the processDrivaliaJobInBackground() calls, by job id

vars == <<jobs, quotes, phase, processingJobs, cookies, isLoggedIn,
          sessionLive, polls, nPolls, tasks, faults, automation_logs, background>>

\* ------------------------------------------------------------ the job rows
\* A row as the API layer inserts it: status 'pending', counters unset (0).
NewJob(vehicles, config) ==
  [status |-> "pending", vehicles |-> vehicles, config |-> config,
   vehicle_count |-> Len(vehicles), success_count |-> 0, failure_count |-> 0,
   duration_seconds |-> "null", error_details |-> "null",
   started_at |-> "null", completed_at |-> "null"]

\* Two jobs of one vehicle and one quote request each (created_at ascends
\* with the id).
SmallJobs ==
  (1 :> NewJob(<<1>>, [terms |-> "36", mileages |-> "10000"]))
  @@ (2 :> NewJob(<<2>>, [terms |-> "48", mileages |-> "8000"]))

\* The term/mileage selections a single job is run with.
JobConfigs ==
  { [terms |-> "36", mileages |-> ALL],
    [terms |-> ALL, mileages |-> "10000"],
    [terms |-> "48", mileages |-> "8000"] }

InitWorkers(deployed) ==
  /\ phase = [w \in Workers |-> IF w \in deployed THEN "new" ELSE "absent"]
  /\ processingJobs = [w \in Workers |-> {}]
  /\ cookies = [w \in Workers |-> "null"]
  /\ isLoggedIn = [w \in Workers |-> FALSE]
  /\ sessionLive = [w \in Workers |-> FALSE]
  /\ polls = EmptyBag
  /\ tasks = EmptyBag
  /\ quotes = <<>>
  /\ faults = 0
  /\ automation_logs = <<>>
  /\ background = <<>>

\* One worker instance, two pending jobs.
Init ==
  /\ InitWorkers({1})
  /\ jobs = SmallJobs
  /\ nPolls = 0

\* Two worker instances on the same store (README, Horizontal Scaling).
InitScale ==
  /\ InitWorkers({1, 2})
  /\ jobs = SmallJobs
  /\ nPolls = 1

\* One worker instance, one pending job of two vehicles found by one poll
\* (the polls before it found the table empty).
InitJob ==
  /\ InitWorkers({1})
  /\ \E c \in JobConfigs : jobs = (1 :> NewJob(<<1, 2>>, c))
  /\ nPolls = MaxPolls - 1

\* ------------------------------------------------------------------ store
\* the ids of S, newest first
RECURSIVE SortedSeqDescending(_)
SortedSeqDescending(S) ==
  IF S = {} THEN <<>>
  ELSE LET m == CHOOSE x \in S : \A y \in S : x >= y
       IN <<m>> \o SortedSeqDescending(S \ {m})

\* DrivaliaJobsService.getPendingJobs: .eq('status','pending').order('created_at')
RECURSIVE SortedSeq(_)
SortedSeq(S) ==
  IF S = {} THEN <<>>
  ELSE LET m == CHOOSE x \in S : \A y \in S : x <= y
       IN <<m>> \o SortedSeq(S \ {m})

getPendingJobs == SortedSeq({j \in DOMAIN jobs : jobs[j].status = "pending"})

\* the update also blanks the row's vehicle list
updateJobStatusClearsVehicles(jobId, status, updates) ==
  [jobs EXCEPT ![jobId] =
     [f \in DOMAIN jobs[jobId] |->
        IF f = "status" THEN status
        ELSE IF f \in DOMAIN updates THEN updates[f]
        ELSE IF f = "vehicles" THEN <<>>
        ELSE jobs[jobId][f]]]

\* DrivaliaJobsService.updateJobStatus: update({status, ...updates}).eq('id', jobId):
\* the row is matched by id alone, whatever its current status; the columns
\* written are status and those of `updates`.
updateJobStatus(jobId, status, updates) ==
  [jobs EXCEPT ![jobId] =
     [f \in DOMAIN jobs[jobId] |->
        IF f = "status" THEN status
        ELSE IF f \in DOMAIN updates THEN updates[f]
        ELSE jobs[jobId][f]]]

startProcessingJob(jobId) ==
  updateJobStatus(jobId, "processing", [started_at |-> "now"])

completeJob(jobId, successCount, failureCount, durationSeconds) ==
  updateJobStatus(jobId, "completed",
    [success_count |-> successCount, failure_count |-> failureCount,
     duration_seconds |-> durationSeconds, completed_at |-> "now"])

failJob(jobId, errorDetails, failureCount) ==
  updateJobStatus(jobId, "failed",
    [error_details |-> errorDetails, failure_count |-> failureCount,
     completed_at |-> "now"])

\* DrivaliaJobsService.insertQuotes: one row per quote, tagged with the job id
insertQuotes(jobId, allQuotes) ==
  quotes \o [k \in 1..Len(allQuotes) |->
               [job_id |-> jobId, vehicle_id |-> allQuotes[k].vehicle_id,
                term |-> allQuotes[k].term, mileage |-> allQuotes[k].mileage]]

\* ------------------------------------------------------------------- poll
Min(a, b) == IF a <= b THEN a ELSE b
Max(a, b) == IF a >= b THEN a ELSE b

\* Array.prototype.slice(0, n): a negative n counts from the end
Slice0(s, n) ==
  IF n >= 0 THEN SubSeq(s, 1, Min(n, Len(s)))
  ELSE SubSeq(s, 1, Max(Len(s) + n, 0))

\* bag B with one copy of x taken out, and with one copy of y put in
Without(B, x) == B (-) SetToBag({x})
With(B, y) == B (+) SetToBag({y})

\* processJob up to its first await: processingJobs.add(jobId), then the
\* startProcessingJob request is in flight.
NewTask(w, jobId) ==
  [w |-> w, job |-> jobId, pc |-> "startProcessingJob",
   vi |-> 0, ti |-> 0, mi |-> 0,
   successCount |-> 0, failureCount |-> 0, allQuotes |-> <<>>,
   \* history of the call, kept for the properties below
   claimed |-> FALSE,     \* its startProcessingJob write was made
   loginFailed |-> FALSE, \* its ensureLoggedIn threw
   unresolved |-> {},     \* indexes of the vehicles whose lookup threw
   calls |-> 0,           \* calculateQuote calls made
   quoteFails |-> 0,      \* calculateQuote calls that threw
   lastErr |-> "none",    \* class of the last calculateQuote error
   delayed |-> FALSE,     \* a rate-limit delay followed the last call
   persisted |-> 0,       \* rows its insertQuotes wrote
   outcome |-> "none"]    \* the terminal status it wrote, if any

\* worker.start(): initBrowser and ensureLoggedIn succeed (a failure exits the
\* process), then the initial poll and the poll timer follow.
Start(w) ==
  /\ phase[w] = "new"
  /\ phase' = [phase EXCEPT ![w] = "running"]
  /\ cookies' = [cookies EXCEPT ![w] = "set"]
  /\ sessionLive' = [sessionLive EXCEPT ![w] = TRUE]
  /\ UNCHANGED <<automation_logs, background, isLoggedIn, jobs, quotes, processingJobs, polls, nPolls, tasks, faults>>

\* the poll sends its getPendingJobs request although the slots are full
PollSkipStillQueries(w) ==
  /\ phase[w] = "running"
  /\ nPolls < MaxPolls
  /\ Cardinality(processingJobs[w]) >= MAX_CONCURRENT_JOBS
  /\ nPolls' = nPolls + 1
  /\ polls' = With(polls, [w |-> w, state |-> "sent", pending |-> <<>>])
  /\ UNCHANGED <<automation_logs, background, jobs, quotes, phase, processingJobs, cookies, isLoggedIn,
                 sessionLive, tasks, faults>>

\* poll(): processingJobs.size >= MAX_CONCURRENT_JOBS, return
PollSkip(w) ==
  /\ phase[w] = "running"
  /\ nPolls < MaxPolls
  /\ Cardinality(processingJobs[w]) >= MAX_CONCURRENT_JOBS
  /\ nPolls' = nPolls + 1
  /\ UNCHANGED <<automation_logs, background, jobs, quotes, phase, processingJobs, cookies, isLoggedIn, sessionLive,
                 polls, tasks, faults>>

\* poll(): the size check passes and the getPendingJobs request is sent
PollBegin(w) ==
  /\ phase[w] = "running"
  /\ nPolls < MaxPolls
  /\ Cardinality(processingJobs[w]) < MAX_CONCURRENT_JOBS
  /\ nPolls' = nPolls + 1
  /\ polls' = With(polls, [w |-> w, state |-> "sent", pending |-> <<>>])
  /\ UNCHANGED <<automation_logs, background, jobs, quotes, phase, processingJobs, cookies, isLoggedIn, sessionLive,
                 tasks, faults>>

\* the store runs the query of poll p: the answer is the pending list of now
PollQuery(p) ==
  /\ p \in BagToSet(polls)
  /\ p.state = "sent"
  /\ polls' = With(Without(polls, p),
                   [p EXCEPT !.state = "answered", !.pending = getPendingJobs])
  /\ UNCHANGED <<automation_logs, background, jobs, quotes, phase, processingJobs, cookies, isLoggedIn, sessionLive,
                 nPolls, tasks, faults>>

\* getPendingJobs throws: poll's catch logs it
PollError(p) ==
  /\ p \in BagToSet(polls)
  /\ p.state = "sent"
  /\ faults < MaxFaults
  /\ faults' = faults + 1
  /\ polls' = Without(polls, p)
  /\ UNCHANGED <<automation_logs, background, jobs, quotes, phase, processingJobs, cookies, isLoggedIn, sessionLive,
                 nPolls, tasks>>

\* pendingJobs.slice(0, MAX_CONCURRENT_JOBS - this.processingJobs.size)
jobsToProcess(w, pendingJobs) ==
  Slice0(pendingJobs, MAX_CONCURRENT_JOBS - Cardinality(processingJobs[w]))

\* poll() resumes with the answer: no pending job, return; else processJob is
\* called (not awaited) on each job of the slice.
PollResume(p) ==
  /\ p \in BagToSet(polls)
  /\ p.state = "answered"
  /\ LET started == jobsToProcess(p.w, p.pending)
     IN /\ tasks' = tasks (+) SetToBag({NewTask(p.w, started[k]) : k \in 1..Len(started)})
        /\ processingJobs' = [processingJobs EXCEPT
             ![p.w] = @ \cup {started[k] : k \in 1..Len(started)}]
  /\ polls' = Without(polls, p)
  /\ UNCHANGED <<automation_logs, background, jobs, quotes, phase, cookies, isLoggedIn, sessionLive, nPolls, faults>>

\* -------------------------------------------------------------- processJob
Job(tk) == jobs[tk.job]

\* the finally block: this.processingJobs.delete(jobId); the call's locals die
Finally(tk, outcome) ==
  [tk EXCEPT !.pc = "done", !.outcome = outcome,
             !.vi = 0, !.ti = 0, !.mi = 0, !.allQuotes = <<>>,
             !.successCount = 0, !.failureCount = 0, !.calls = 0, !.persisted = 0,
             !.unresolved = {}, !.quoteFails = 0,
             !.lastErr = "none", !.delayed = FALSE]

\* after the vehicle loop insertQuotes is called whatever allQuotes holds
AfterVehiclesAlwaysInserts(tk) ==
  [tk EXCEPT !.pc = "insertQuotes", !.vi = 0, !.ti = 0, !.mi = 0]

\* after the vehicle loop: if (allQuotes.length > 0) insertQuotes, then completeJob
AfterVehicles(tk) ==
  [tk EXCEPT !.pc = IF Len(tk.allQuotes) > 0 THEN "insertQuotes" ELSE "completeJob",
             !.vi = 0, !.ti = 0, !.mi = 0]

\* for (const vehicle of job.vehicles): the next vehicle's findVariant, if any
NextVehicle(tk) ==
  IF tk.vi < Len(Job(tk).vehicles)
    THEN [tk EXCEPT !.pc = "findVariant", !.vi = @ + 1, !.ti = 0, !.mi = 0]
    ELSE AfterVehicles(tk)

\* for (const term of terms) for (const mileage of mileages): the next request
NextRequest(tk) ==
  IF tk.mi < Len(Mileages(Job(tk).config))
    THEN [tk EXCEPT !.pc = "calculateQuote", !.mi = @ + 1]
  ELSE IF tk.ti < Len(Terms(Job(tk).config))
    THEN [tk EXCEPT !.pc = "calculateQuote", !.ti = @ + 1, !.mi = 1]
  ELSE NextVehicle(tk)

At(tk, pc) == tk \in BagToSet(tasks) /\ tk.pc = pc

\* the call tk moves on as the record tk2
Step(tk, tk2) == tasks' = With(Without(tasks, tk), tk2)

\* the call goes on to the session check without the processing write
StartProcessingNotAwaited(t) ==
  /\ At(t, "startProcessingJob")
  /\ Step(t, [t EXCEPT !.pc = "ensureLoggedIn"])
  /\ UNCHANGED <<automation_logs, background, jobs, quotes, phase, processingJobs, cookies, isLoggedIn,
                 sessionLive, polls, nPolls, faults>>

\* await drivaliaJobsService.startProcessingJob(jobId) returns
StartProcessing(t) ==
  /\ At(t, "startProcessingJob")
  /\ jobs' = startProcessingJob(t.job)
  /\ Step(t, [t EXCEPT !.pc = "ensureLoggedIn", !.claimed = TRUE])
  /\ UNCHANGED <<automation_logs, background, quotes, phase, processingJobs, cookies, isLoggedIn, sessionLive, polls,
                 nPolls, faults>>

\* a store call of the try block throws (if (error) throw error): the write is
\* not made and control passes to the catch block
StoreError(t) ==
  /\ t \in BagToSet(tasks)
  /\ t.pc \in {"startProcessingJob", "insertQuotes", "completeJob"}
  /\ faults < MaxFaults
  /\ faults' = faults + 1
  /\ Step(t, [t EXCEPT !.pc = "failJob"])
  /\ UNCHANGED <<automation_logs, background, jobs, quotes, phase, processingJobs, cookies, isLoggedIn, sessionLive,
                 polls, nPolls>>

\* the session check is skipped: the call goes on with whatever session there is
EnsureLoggedInSkipped(t) ==
  /\ At(t, "ensureLoggedIn")
  /\ Step(t, NextVehicle(t))
  /\ UNCHANGED <<automation_logs, background, jobs, quotes, phase, processingJobs, cookies, isLoggedIn,
                 sessionLive, polls, nPolls, faults>>

\* await this.ensureLoggedIn() returns: the session test passed, or the
\* browser login went through and the cookies it left pass the test
EnsureLoggedIn(t) ==
  /\ At(t, "ensureLoggedIn")
  /\ cookies' = [cookies EXCEPT ![t.w] = "set"]
  /\ sessionLive' = [sessionLive EXCEPT ![t.w] = TRUE]
  /\ Step(t, NextVehicle(t))
  /\ UNCHANGED <<automation_logs, background, isLoggedIn, jobs, quotes, phase, processingJobs, polls, nPolls, faults>>

\* the login error is caught and logged where it is raised; the vehicle loop runs
EnsureLoggedInSwallowed(t) ==
  /\ At(t, "ensureLoggedIn")
  /\ faults < MaxFaults
  /\ faults' = faults + 1
  /\ \E c \in {"null", "set"} : cookies' = [cookies EXCEPT ![t.w] = c]
  /\ sessionLive' = [sessionLive EXCEPT ![t.w] = FALSE]
  /\ Step(t, NextVehicle([t EXCEPT !.loginFailed = TRUE]))
  /\ UNCHANGED <<automation_logs, background, isLoggedIn, jobs, quotes, phase, processingJobs, polls, nPolls>>

\* await this.ensureLoggedIn() throws (page.goto fails, or 'Login failed - no
\* valid session'); this.cookies is null or whatever the page held
EnsureLoggedInThrows(t) ==
  /\ At(t, "ensureLoggedIn")
  /\ faults < MaxFaults
  /\ faults' = faults + 1
  /\ \E c \in {"null", "set"} : cookies' = [cookies EXCEPT ![t.w] = c]
  /\ sessionLive' = [sessionLive EXCEPT ![t.w] = FALSE]
  /\ Step(t, [t EXCEPT !.pc = "failJob", !.loginFailed = TRUE])
  /\ UNCHANGED <<automation_logs, background, isLoggedIn, jobs, quotes, phase, processingJobs, polls, nPolls>>

\* the vendor drops the session behind this.cookies
SessionExpire(w) ==
  /\ sessionLive[w]
  /\ faults < MaxFaults
  /\ faults' = faults + 1
  /\ sessionLive' = [sessionLive EXCEPT ![w] = FALSE]
  /\ UNCHANGED <<automation_logs, background, jobs, quotes, phase, processingJobs, cookies, isLoggedIn, polls, nPolls,
                 tasks>>

\* await this.findVariant(...) returns the vendor's vehicle
FindVariant(t) ==
  /\ At(t, "findVariant")
  /\ sessionLive[t.w]
  /\ Step(t, [t EXCEPT !.pc = "calculateQuote", !.ti = 1, !.mi = 1])
  /\ UNCHANGED <<automation_logs, background, jobs, quotes, phase, processingJobs, cookies, isLoggedIn, sessionLive,
                 polls, nPolls, faults>>

\* catch (vehicleError) { failureCount++ }
VehicleFailed(tk) ==
  NextVehicle([tk EXCEPT !.failureCount = @ + 1,
                         !.unresolved = @ \cup {tk.vi}])

\* await this.findVariant(...) throws (not found, or the API call fails)
FindVariantThrows(t) ==
  /\ At(t, "findVariant")
  /\ \/ ~sessionLive[t.w] /\ faults' = faults
     \/ faults < MaxFaults /\ faults' = faults + 1
  /\ Step(t, VehicleFailed(t))
  /\ UNCHANGED <<automation_logs, background, jobs, quotes, phase, processingJobs, cookies, isLoggedIn, sessionLive,
                 polls, nPolls>>

\* await this.calculateQuote(...) returns: allQuotes.push(quote); successCount++;
\* then the rate-limit timer is awaited
CalculateQuote(t) ==
  /\ At(t, "calculateQuote")
  /\ sessionLive[t.w]
  /\ LET tk == t
         quote == [vehicle_id |-> Job(tk).vehicles[tk.vi],
                   term |-> Terms(Job(tk).config)[tk.ti],
                   mileage |-> Mileages(Job(tk).config)[tk.mi]]
     IN Step(t,
          [tk EXCEPT !.pc = "rateLimit", !.allQuotes = Append(@, quote),
                     !.successCount = @ + 1, !.calls = @ + 1,
                     !.lastErr = "none", !.delayed = FALSE])
  /\ UNCHANGED <<automation_logs, background, jobs, quotes, phase, processingJobs, cookies, isLoggedIn, sessionLive,
                 polls, nPolls, faults>>

\* catch (quoteError) { failureCount++ }: the next request follows at once
QuoteFailed(tk, err) ==
  NextRequest([tk EXCEPT !.failureCount = @ + 1, !.calls = @ + 1,
                         !.quoteFails = @ + 1, !.lastErr = err,
                         !.delayed = FALSE])

\* await this.calculateQuote(...) throws: a transient error (timeout, HTTP 429)
\* or a permanent one (rejected request, no payment in the response)
CalculateQuoteThrows(t) ==
  /\ At(t, "calculateQuote")
  /\ \E err \in {"transient", "permanent"} :
       /\ \/ ~sessionLive[t.w] /\ err = "permanent" /\ faults' = faults
          \/ faults < MaxFaults /\ faults' = faults + 1
       /\ Step(t, QuoteFailed(t, err))
  /\ UNCHANGED <<automation_logs, background, jobs, quotes, phase, processingJobs, cookies, isLoggedIn, sessionLive,
                 polls, nPolls>>

\* await new Promise(r => setTimeout(r, 500)) returns
RateLimit(t) ==
  /\ At(t, "rateLimit")
  /\ Step(t, NextRequest([t EXCEPT !.delayed = TRUE]))
  /\ UNCHANGED <<automation_logs, background, jobs, quotes, phase, processingJobs, cookies, isLoggedIn, sessionLive,
                 polls, nPolls, faults>>

\* await drivaliaJobsService.insertQuotes(jobId, allQuotes) returns
InsertQuotes(t) ==
  /\ At(t, "insertQuotes")
  /\ quotes' = insertQuotes(t.job, t.allQuotes)
  /\ Step(t, [t EXCEPT !.pc = "completeJob", !.persisted = Len(t.allQuotes)])
  /\ UNCHANGED <<automation_logs, background, jobs, phase, processingJobs, cookies, isLoggedIn, sessionLive, polls,
                 nPolls, faults>>

\* the completeJob request is never answered
CompleteJobNeverReturns(t) ==
  /\ At(t, "completeJob")
  /\ UNCHANGED vars

\* await drivaliaJobsService.completeJob(...) returns; finally
CompleteJob(t) ==
  /\ At(t, "completeJob")
  /\ jobs' = completeJob(t.job, t.successCount,
                         t.failureCount, "secs")
  /\ Step(t, Finally(t, "completed"))
  /\ processingJobs' = [processingJobs EXCEPT ![t.w] = @ \ {t.job}]
  /\ UNCHANGED <<automation_logs, background, quotes, phase, cookies, isLoggedIn, sessionLive, polls, nPolls, faults>>

\* catch (error): await drivaliaJobsService.failJob(jobId, {...},
\* job.vehicle_count) returns; finally
FailJob(t) ==
  /\ At(t, "failJob")
  /\ jobs' = failJob(t.job, "error", Job(t).vehicle_count)
  /\ Step(t, Finally(t, "failed"))
  /\ processingJobs' = [processingJobs EXCEPT ![t.w] = @ \ {t.job}]
  /\ UNCHANGED <<automation_logs, background, quotes, phase, cookies, isLoggedIn, sessionLive, polls, nPolls, faults>>

\* failJob throws and the job id stays in processingJobs
FailJobThrowsKeepsSlot(t) ==
  /\ At(t, "failJob")
  /\ faults < MaxFaults
  /\ faults' = faults + 1
  /\ Step(t, Finally(t, "failJobThrew"))
  /\ UNCHANGED <<automation_logs, background, jobs, quotes, phase, processingJobs, cookies, isLoggedIn,
                 sessionLive, polls, nPolls>>

\* failJob itself throws inside the catch block: finally runs, the rejection
\* reaches poll's .catch and is logged
FailJobThrows(t) ==
  /\ At(t, "failJob")
  /\ faults < MaxFaults
  /\ faults' = faults + 1
  /\ Step(t, Finally(t, "failJobThrew"))
  /\ processingJobs' = [processingJobs EXCEPT ![t.w] = @ \ {t.job}]
  /\ UNCHANGED <<automation_logs, background, jobs, quotes, phase, cookies, isLoggedIn, sessionLive, polls, nPolls>>

\* ------------------------------------- DrivaliaSimpleBrowserWorker.processJob
\* The same poll/processJob around a different vehicle loop
\* (src/src/drivaliaSimpleBrowserWorker.js): per vehicle navigateToQuotePage,
\* then selectVehicle, then per (term, mileage) setQuoteParameters,
\* clickRecalculate and extractQuote; no rate-limit delay.

\* worker.start(): initBrowser, then ensureLoggedIn logs in and sets
\* this.isLoggedIn = true (a failure exits the process)
BrowserStart(w) ==
  /\ phase[w] = "new"
  /\ phase' = [phase EXCEPT ![w] = "running"]
  /\ isLoggedIn' = [isLoggedIn EXCEPT ![w] = TRUE]
  /\ sessionLive' = [sessionLive EXCEPT ![w] = TRUE]
  /\ UNCHANGED <<automation_logs, background, jobs, quotes, processingJobs, cookies, polls, nPolls, tasks,
                 faults>>

\* for (const vehicle of job.vehicles): await this.navigateToQuotePage()
BrowserNextVehicle(tk) ==
  IF tk.vi < Len(Job(tk).vehicles)
    THEN [tk EXCEPT !.pc = "navigateToQuotePage", !.vi = @ + 1, !.ti = 0, !.mi = 0]
    ELSE AfterVehicles(tk)

\* for (const term of terms) for (const mileage of mileages)
BrowserNextRequest(tk) ==
  IF tk.mi < Len(Mileages(Job(tk).config))
    THEN [tk EXCEPT !.pc = "extractQuote", !.mi = @ + 1]
  ELSE IF tk.ti < Len(Terms(Job(tk).config))
    THEN [tk EXCEPT !.pc = "extractQuote", !.ti = @ + 1, !.mi = 1]
  ELSE BrowserNextVehicle(tk)

\* await this.ensureLoggedIn(): if (this.isLoggedIn) return; the flag is set
\* by start() and nothing resets it, so the login branch is never taken here
BrowserEnsureLoggedIn(t) ==
  /\ At(t, "ensureLoggedIn")
  /\ isLoggedIn[t.w]
  /\ Step(t, BrowserNextVehicle(t))
  /\ UNCHANGED <<automation_logs, background, jobs, quotes, phase, processingJobs, cookies, isLoggedIn,
                 sessionLive, polls, nPolls, faults>>

\* await this.navigateToQuotePage() returns
NavigateToQuotePage(t) ==
  /\ At(t, "navigateToQuotePage")
  /\ sessionLive[t.w]
  /\ Step(t, [t EXCEPT !.pc = "selectVehicle"])
  /\ UNCHANGED <<automation_logs, background, jobs, quotes, phase, processingJobs, cookies, isLoggedIn,
                 sessionLive, polls, nPolls, faults>>

\* await this.navigateToQuotePage() throws (page.goto or waitForSelector times
\* out): the call stands outside the vehicle's try, the outer catch takes it
NavigateToQuotePageThrows(t) ==
  /\ At(t, "navigateToQuotePage")
  /\ \/ ~sessionLive[t.w] /\ faults' = faults
     \/ faults < MaxFaults /\ faults' = faults + 1
  /\ Step(t, [t EXCEPT !.pc = "failJob"])
  /\ UNCHANGED <<automation_logs, background, jobs, quotes, phase, processingJobs, cookies, isLoggedIn,
                 sessionLive, polls, nPolls>>

\* await this.selectVehicle(...) returns
SelectVehicle(t) ==
  /\ At(t, "selectVehicle")
  /\ sessionLive[t.w]
  /\ Step(t, [t EXCEPT !.pc = "extractQuote", !.ti = 1, !.mi = 1])
  /\ UNCHANGED <<automation_logs, background, jobs, quotes, phase, processingJobs, cookies, isLoggedIn,
                 sessionLive, polls, nPolls, faults>>

\* await this.selectVehicle(...) throws: catch (vehicleError) { failureCount++ }
SelectVehicleThrows(t) ==
  /\ At(t, "selectVehicle")
  /\ \/ ~sessionLive[t.w] /\ faults' = faults
     \/ faults < MaxFaults /\ faults' = faults + 1
  /\ Step(t, BrowserNextVehicle([t EXCEPT !.failureCount = @ + 1,
                                          !.unresolved = @ \cup {t.vi}]))
  /\ UNCHANGED <<automation_logs, background, jobs, quotes, phase, processingJobs, cookies, isLoggedIn,
                 sessionLive, polls, nPolls>>

\* setQuoteParameters, clickRecalculate and extractQuote return:
\* allQuotes.push(quote); successCount++
ExtractQuote(t) ==
  /\ At(t, "extractQuote")
  /\ sessionLive[t.w]
  /\ LET quote == [vehicle_id |-> Job(t).vehicles[t.vi],
                   term |-> Terms(Job(t).config)[t.ti],
                   mileage |-> Mileages(Job(t).config)[t.mi]]
     IN Step(t, BrowserNextRequest(
                  [t EXCEPT !.allQuotes = Append(@, quote),
                            !.successCount = @ + 1, !.calls = @ + 1]))
  /\ UNCHANGED <<automation_logs, background, jobs, quotes, phase, processingJobs, cookies, isLoggedIn,
                 sessionLive, polls, nPolls, faults>>

\* one of the three throws: catch (quoteError) { failureCount++ }
ExtractQuoteThrows(t) ==
  /\ At(t, "extractQuote")
  /\ \/ ~sessionLive[t.w] /\ faults' = faults
     \/ faults < MaxFaults /\ faults' = faults + 1
  /\ Step(t, BrowserNextRequest(
               [t EXCEPT !.failureCount = @ + 1, !.calls = @ + 1,
                         !.quoteFails = @ + 1]))
  /\ UNCHANGED <<automation_logs, background, jobs, quotes, phase, processingJobs, cookies, isLoggedIn,
                 sessionLive, polls, nPolls>>

\* --------------------------------------------------------- specifications

\* the steps of a poll() call and of the worker's start
PollStep ==
  \/ \E w \in Workers : Start(w)
  \/ \E w \in Workers : PollBegin(w)
  \/ \E p \in BagToSet(polls) : PollQuery(p)
  \/ \E p \in BagToSet(polls) : PollError(p)
  \/ \E p \in BagToSet(polls) : PollResume(p)

\* the steps of a processJob() call, and the vendor dropping a session
JobStep ==
  \/ \E w \in Workers : SessionExpire(w)
  \/ \E t \in BagToSet(tasks) : StartProcessing(t)
  \/ \E t \in BagToSet(tasks) : StoreError(t)
  \/ \E t \in BagToSet(tasks) : EnsureLoggedIn(t)
  \/ \E t \in BagToSet(tasks) : EnsureLoggedInThrows(t)
  \/ \E t \in BagToSet(tasks) : FindVariant(t)
  \/ \E t \in BagToSet(tasks) : FindVariantThrows(t)
  \/ \E t \in BagToSet(tasks) : CalculateQuote(t)
  \/ \E t \in BagToSet(tasks) : CalculateQuoteThrows(t)
  \/ \E t \in BagToSet(tasks) : RateLimit(t)
  \/ \E t \in BagToSet(tasks) : InsertQuotes(t)
  \/ \E t \in BagToSet(tasks) : CompleteJob(t)
  \/ \E t \in BagToSet(tasks) : FailJob(t)
  \/ \E t \in BagToSet(tasks) : FailJobThrows(t)

Next ==
  \/ \E w \in Workers : PollSkip(w)
  \/ PollStep
  \/ JobStep

\* a single job never fills the MAX_CONCURRENT_JOBS slots: no poll is skipped
NextJob ==
  \/ PollStep
  \/ JobStep

\* one worker instance, two small jobs, overlapping polls
Spec == Init /\ [][Next]_vars

\* two worker instances on one store
SpecScale == InitScale /\ [][Next]_vars

\* one worker instance running one job over its request matrix
SpecJob == InitJob /\ [][NextJob]_vars

\* the same, where every store and vendor call eventually returns (with a
\* result or an error) and the event loop runs every continuation that is ready
SpecJobFair == SpecJob /\ WF_vars(PollStep) /\ WF_vars(JobStep)

\* the steps of a simple browser worker
NextBrowser ==
  \/ \E w \in Workers : BrowserStart(w)
  \/ \E w \in Workers : PollBegin(w)
  \/ \E p \in BagToSet(polls) : PollQuery(p)
  \/ \E p \in BagToSet(polls) : PollError(p)
  \/ \E p \in BagToSet(polls) : PollResume(p)
  \/ \E w \in Workers : SessionExpire(w)
  \/ \E t \in BagToSet(tasks) : StartProcessing(t)
  \/ \E t \in BagToSet(tasks) : StoreError(t)
  \/ \E t \in BagToSet(tasks) : BrowserEnsureLoggedIn(t)
  \/ \E t \in BagToSet(tasks) : NavigateToQuotePage(t)
  \/ \E t \in BagToSet(tasks) : NavigateToQuotePageThrows(t)
  \/ \E t \in BagToSet(tasks) : SelectVehicle(t)
  \/ \E t \in BagToSet(tasks) : SelectVehicleThrows(t)
  \/ \E t \in BagToSet(tasks) : ExtractQuote(t)
  \/ \E t \in BagToSet(tasks) : ExtractQuoteThrows(t)
  \/ \E t \in BagToSet(tasks) : InsertQuotes(t)
  \/ \E t \in BagToSet(tasks) : CompleteJob(t)
  \/ \E t \in BagToSet(tasks) : FailJob(t)
  \/ \E t \in BagToSet(tasks) : FailJobThrows(t)

\* one simple browser worker instance running one job over its request matrix
SpecBrowser == InitJob /\ [][NextBrowser]_vars

\* ------------------------------------------------------------- properties
RECURSIVE BagSum(_, _)
BagSum(B, S) ==
  IF S = {} THEN 0
  ELSE LET x == CHOOSE y \in S : TRUE
       IN CopiesIn(x, B) + BagSum(B, S \ {x})

\* processJob calls made by instance w on job j, and those of w still running
Handed(w, j) == BagSum(tasks, {r \in BagToSet(tasks) : r.w = w /\ r.job = j})
Running(w) == BagSum(tasks, {r \in BagToSet(tasks) : r.w = w /\ r.pc # "done"})

\* this step is a step of the one processJob call r, which becomes r2
Moves(r, r2) ==
  /\ r \in BagToSet(tasks)
  /\ r2 \in BagToSet(tasks')
  /\ r # r2
  /\ tasks' = With(Without(tasks, r), r2)

\* the quote requests of a job row: vehicles x terms x mileages
Requests(row) ==
  Len(row.vehicles) * Len(Terms(row.config)) * Len(Mileages(row.config))

\* C1: every job whose status is completed or failed carries
\* success_count + failure_count = |vehicles| x |terms| x |mileages|.
C1_CountsCoverMatrix ==
  \A j \in DOMAIN jobs :
    jobs[j].status \in {"completed", "failed"}
      => jobs[j].success_count + jobs[j].failure_count = Requests(jobs[j])

\* C2: with two worker instances, once one instance has made the
\* pending->processing write for a job, no call of the other instance gets past
\* its own startProcessingJob for that job (to vendor calls or finalization).
C2_NoDoubleProcessing ==
  \A a, b \in BagToSet(tasks) :
    (a.job = b.job /\ a.w # b.w) => ~(a.claimed /\ b.claimed)

\* C3: within one instance a job is handed to processJob at most once.
C3_HandedOnce ==
  \A w \in Workers : \A j \in DOMAIN jobs : Handed(w, j) <= 1

\* C4: an instance never runs more than MAX_CONCURRENT_JOBS processJob calls.
C4_ConcurrencyBound ==
  \A w \in Workers : Running(w) <= MAX_CONCURRENT_JOBS

\* C5: every change of a job's persisted status is pending->processing,
\* processing->completed or processing->failed.
C5_StatusTransitions ==
  [][\A j \in DOMAIN jobs :
       jobs'[j].status # jobs[j].status
         => <<jobs[j].status, jobs'[j].status>> \in
              { <<"pending", "processing">>, <<"processing", "completed">>,
                <<"processing", "failed">> }]_vars

\* C6: a step in which the lookup of a vehicle fails adds |terms| x |mileages|
\* to the call's failure counter and nothing to its success counter.
C6_ResolutionFailureCounts ==
  [][\A r \in BagToSet(tasks) : \A r2 \in BagToSet(tasks') :
       (Moves(r, r2) /\ r.pc = "findVariant" /\ r.vi \in r2.unresolved)
         => /\ r2.failureCount = r.failureCount
                 + Len(Terms(Job(r).config)) * Len(Mileages(Job(r).config))
            /\ r2.successCount = r.successCount]_vars

\* C7: vehicle and quote failures never send a call to failJob, and the job of
\* two vehicles with terms=36, mileages=ALL whose second vehicle fails
\* resolution (every quote of the first succeeding) is completed with 8
\* successes and 8 failures.
C7_PartialFailureCompletes ==
  [][\A r \in BagToSet(tasks) : \A r2 \in BagToSet(tasks') :
       Moves(r, r2) =>
         /\ r.pc \in {"findVariant", "calculateQuote", "rateLimit"}
              => r2.pc # "failJob"
         /\ ( /\ r.pc = "completeJob" /\ r2.outcome = "completed"
              /\ Job(r).config = [terms |-> "36", mileages |-> ALL]
              /\ Len(Job(r).vehicles) = 2
              /\ r.unresolved = {2} /\ r.quoteFails = 0 )
              => /\ jobs'[r.job].status = "completed"
                 /\ jobs'[r.job].success_count = 8
                 /\ jobs'[r.job].failure_count = 8]_vars

C9_RetryTransientOnce ==
  [][\A r \in BagToSet(tasks) : \A r2 \in BagToSet(tasks') :
       (Moves(r, r2) /\ r.pc = "calculateQuote"
          /\ r2.failureCount = r.failureCount + 1)
         => \/ r2.lastErr = "permanent" /\ r2.calls - r.calls = 1
            \/ r2.lastErr = "transient" /\ r2.calls - r.calls = 2]_vars

\* C10: a calculateQuote call that is not the first of its processJob call
\* comes after a rate-limit delay that followed the call before it.
C10_DelayBetweenCalls ==
  [][\A r \in BagToSet(tasks) : \A r2 \in BagToSet(tasks') :
       (Moves(r, r2) /\ r2.calls = r.calls + 1 /\ r.calls > 0)
         => r.delayed]_vars

\* the nested loops of processJob laid out flat: for each vehicle, for each
\* term, for each mileage, in that order
Expand(vehicles, config) ==
  LET T == Terms(config)
      M == Mileages(config)
      n == Len(T) * Len(M)
  IN [k \in 1..(Len(vehicles) * n) |->
        [vehicle_id |-> vehicles[((k - 1) \div n) + 1],
         term |-> T[(((k - 1) % n) \div Len(M)) + 1],
         mileage |-> M[((k - 1) % Len(M)) + 1]]]

\* the pcs of the vehicle loop, the request a call is at, and the place of
\* that request in the expansion (at findVariant: of the last request before
\* the vehicle's own)
LoopPcs == {"findVariant", "calculateQuote", "rateLimit"}

Request(r) ==
  [vehicle_id |-> Job(r).vehicles[r.vi],
   term |-> Terms(Job(r).config)[r.ti],
   mileage |-> Mileages(Job(r).config)[r.mi]]

Index(r) ==
  LET T == Len(Terms(Job(r).config))
      M == Len(Mileages(Job(r).config))
  IN IF r.pc = "findVariant" THEN (r.vi - 1) * T * M
     ELSE ((r.vi - 1) * T + (r.ti - 1)) * M + r.mi

\* C11: terms is [24,36,48,60] for 'ALL' and one element otherwise, mileages
\* is the list of eight for 'ALL' and one element otherwise; the request a
\* call is at is the entry of the expansion of (vehicles, config) at its
\* index, whatever happened before; a call that resolved every vehicle has
\* made |vehicles| x |terms| x |mileages| quote calls when the loops end; one
\* vehicle with terms ALL and mileages 10000 expands to 4 requests.
C11_MatrixExpansion ==
  /\ \A r \in BagToSet(tasks) :
       LET c == Job(r).config
           nT == IF c.terms = ALL THEN 4 ELSE 1
           nM == IF c.mileages = ALL THEN 8 ELSE 1
       IN /\ c.terms = ALL => Terms(c) = <<24, 36, 48, 60>>
          /\ c.terms # ALL => Len(Terms(c)) = 1
          /\ c.mileages = ALL
               => Mileages(c) = <<5000, 8000, 10000, 12000, 15000,
                                  20000, 25000, 30000>>
          /\ c.mileages # ALL => Len(Mileages(c)) = 1
          /\ r.pc \in {"calculateQuote", "rateLimit"}
               => Request(r) = Expand(Job(r).vehicles, c)[Index(r)]
          /\ (r.pc \in {"insertQuotes", "completeJob"} /\ r.unresolved = {})
               => r.calls = Len(Job(r).vehicles) * nT * nM
  /\ LET e == Expand(<<1>>, [terms |-> ALL, mileages |-> "10000"])
     IN /\ Len(e) = 4
        /\ \A k \in 1..4 : e[k].mileage = 10000 /\ e[k].vehicle_id = 1
        /\ <<e[1].term, e[2].term, e[3].term, e[4].term>> = <<24, 36, 48, 60>>

\* C11 witness: a call on a job with terms ALL, mileages 10000 has resolved
\* both vehicles and made its 8 quote calls
C11_Witness ==
  \E r \in BagToSet(tasks) :
    /\ r.pc \in {"insertQuotes", "completeJob"}
    /\ Job(r).config = [terms |-> ALL, mileages |-> "10000"]
    /\ r.unresolved = {} /\ r.calls = 8

\* quote calls of job j in flight in instance w
QuoteCallsInFlight(w, j) ==
  BagSum(tasks, {r \in BagToSet(tasks) :
                   r.w = w /\ r.job = j /\ r.pc = "calculateQuote"})

\* C12: the quote calls of a job are issued in matrix-expansion order (each
\* new call is the request next after the one before it, each new lookup the
\* next vehicle of the list) and one at a time (a job never has two quote
\* calls in flight).
C12_MatrixOrderOneAtATime ==
  [][/\ \A r \in BagToSet(tasks) : \A r2 \in BagToSet(tasks') :
          (Moves(r, r2) /\ r.pc \in LoopPcs \cup {"ensureLoggedIn"})
            => /\ r2.pc = "calculateQuote" => Index(r2) = Index(r) + 1
               /\ r2.pc = "findVariant" => r2.vi = r.vi + 1
               /\ r2.pc \in {"calculateQuote", "rateLimit"}
                    => Request(r2) = Expand(Job(r).vehicles, Job(r).config)[Index(r2)]
     /\ \A w \in Workers : \A j \in DOMAIN jobs : QuoteCallsInFlight(w, j)' <= 1
    ]_vars

\* C13: no step of the vehicle loop (navigation to the quote page, vehicle
\* selection, parameter setting and quote extraction) sends the call to the
\* job-level catch: each error becomes a failure count and the loop goes on.
C13_LoopErrorsNeverAbort ==
  [][\A r \in BagToSet(tasks) : \A r2 \in BagToSet(tasks') :
       (Moves(r, r2)
          /\ r.pc \in {"navigateToQuotePage", "selectVehicle", "extractQuote"})
         => /\ r2.pc # "failJob"
            /\ r2.successCount + r2.failureCount
                 >= r.successCount + r.failureCount]_vars

\* rows of table drivalia_quotes that belong to job j
Rows(j) == Len(SelectSeq(quotes, LAMBDA q : q.job_id = j))

\* C14: a job whose status is failed has no QuoteResult row in the store.
C14_FailedJobHasNoRows ==
  \A j \in DOMAIN jobs : jobs[j].status = "failed" => Rows(j) = 0

\* C15: no step writes status pending, and a job leaves pending only by the
\* claim (the pending->processing write).
C15_PendingOnlyLeftByClaim ==
  [][\A j \in DOMAIN jobs :
       /\ jobs'[j].status = "pending" => jobs[j].status = "pending"
       /\ (jobs[j].status = "pending" /\ jobs'[j].status # "pending")
            => jobs'[j].status = "processing"]_vars

\* C16: in every state where a job's status is completed, the rows persisted
\* for the job number its recorded success_count.
C16_RowsMatchSuccessCount ==
  \A j \in DOMAIN jobs :
    jobs[j].status = "completed" => Rows(j) = jobs[j].success_count

\* C17: a call leaves ensureLoggedIn for the vehicle loop only with a valid
\* session in place: one that was found valid or one just established.
C17_SessionValidAtJobStart ==
  [][\A r \in BagToSet(tasks) : \A r2 \in BagToSet(tasks') :
       (Moves(r, r2) /\ r.pc = "ensureLoggedIn" /\ r2.pc # "failJob")
         => sessionLive'[r.w]]_vars

\* an earlier call of instance w ended on a failed login
LoginFailedBefore(w) ==
  \E d \in BagToSet(tasks) : d.w = w /\ d.loginFailed /\ d.pc = "done"

C19_OldestPendingFirst ==
  [][\A p \in BagToSet(polls) :
       (p.state = "answered" /\ polls' = Without(polls, p))
         => LET free == MAX_CONCURRENT_JOBS - Cardinality(processingJobs[p.w])
                n == Min(Len(p.pending), free)
                started == {p.pending[k] : k \in 1..n}
            IN /\ free >= 0
               /\ \A i, k \in 1..Len(p.pending) :
                    i < k => p.pending[i] < p.pending[k]
               /\ tasks' = tasks (+) SetToBag({NewTask(p.w, j) : j \in started})
               /\ \A a \in started : \A j \in DOMAIN jobs :
                    (j < a /\ jobs[j].status = "pending") => j \in started]_vars

\* C19 witness: a poll cycle has just started job 1 and job 2, both pending
C19_Witness ==
  \E a \in BagToSet(tasks) : \E b \in BagToSet(tasks) :
    /\ a.w = b.w /\ a.job = 1 /\ b.job = 2
    /\ a.pc = "startProcessingJob" /\ b.pc = "startProcessingJob"
    /\ jobs[1].status = "pending" /\ jobs[2].status = "pending"
    /\ processingJobs[a.w] = {1, 2}

\* job j has been claimed and is not finalized
Claimed(j) == j \in DOMAIN jobs /\ jobs[j].status = "processing"

\* job j carries a terminal status
Finalized(j) == j \in DOMAIN jobs /\ jobs[j].status \in {"completed", "failed"}

C24_JobInputsUnchanged ==
  [][/\ DOMAIN jobs' = DOMAIN jobs
     /\ \A j \in DOMAIN jobs :
          /\ jobs'[j].vehicles = jobs[j].vehicles
          /\ jobs'[j].config = jobs[j].config
          /\ jobs'[j].vehicle_count = jobs[j].vehicle_count]_vars

\* C24 witness: a job went through the processing and the completed write and
\* still carries both vehicles
C24_Witness ==
  \E j \in DOMAIN jobs :
    /\ jobs[j].status = "completed" /\ jobs[j].started_at = "now"
    /\ jobs[j].success_count > 0 /\ jobs[j].vehicles = <<1, 2>>

\* C25: the store holds at most one row per job and (vehicle, term, mileage).
C25_RowsUnique ==
  \A i, k \in 1..Len(quotes) : i < k => quotes[i] # quotes[k]

\* C26: processingJobs holds a job id exactly when a processJob call on that id
\* is running in the instance, and its size is the number of running calls.
C26_ProcessingJobsMatchesTasks ==
  \A w \in Workers :
    /\ \A j \in DOMAIN jobs :
         j \in processingJobs[w]
           <=> \E r \in BagToSet(tasks) : r.w = w /\ r.job = j /\ r.pc # "done"
    /\ Cardinality(processingJobs[w]) = Running(w)

\* C27: the step in which a processJob call ends (job completed, job failed,
\* or failJob throwing) leaves its job id out of processingJobs.
C27_EndedCallFreesSlot ==
  [][\A r \in BagToSet(tasks) : \A r2 \in BagToSet(tasks') :
       (Moves(r, r2) /\ r2.pc = "done")
         => /\ r.job \notin processingJobs'[r.w]
            /\ r2.outcome \in {"completed", "failed", "failJobThrew"}]_vars

\* C27 witness: a call ended on a failJob that threw, and its slot is free
C27_Witness ==
  \E r \in BagToSet(tasks) :
    /\ r.pc = "done" /\ r.outcome = "failJobThrew"
    /\ r.job \notin processingJobs[r.w]
    /\ Cardinality(processingJobs[r.w]) < MAX_CONCURRENT_JOBS

\* the awaits of a call that are interactions with the vendor
VendorPcs == {"ensureLoggedIn", "findVariant", "calculateQuote"}

\* vendor interactions of instance w in flight
VendorCallsInFlight(w) ==
  BagSum(tasks, {r \in BagToSet(tasks) : r.w = w /\ r.pc \in VendorPcs})

\* C28: an instance has at most one vendor interaction in flight.
C28_OneVendorInteraction ==
  \A w \in Workers : VendorCallsInFlight(w) <= 1

\* C29: a call reaches its session check, vehicle lookups and quote calls only
\* after its processing write was made; when that write fails the call goes
\* straight to failJob and ends without any vendor call.
C29_ProcessingWrittenFirst ==
  [][\A r \in BagToSet(tasks) : \A r2 \in BagToSet(tasks') :
       Moves(r, r2) =>
         /\ r2.pc \in VendorPcs \cup {"rateLimit"} => r2.claimed
         /\ r.pc = "startProcessingJob"
              => \/ /\ r2.pc = "ensureLoggedIn" /\ r2.claimed
                    /\ jobs'[r.job].status = "processing"
                 \/ /\ r2.pc = "failJob" /\ ~r2.claimed /\ r2.calls = 0
                    /\ jobs' = jobs
         /\ (~r.claimed /\ r.pc # "startProcessingJob")
              => /\ r.pc = "failJob" /\ r2.pc = "done"
                 /\ ~r2.claimed /\ r2.calls = 0]_vars

\* C29 witness: a call whose processing write failed has ended through failJob
C29_Witness ==
  \E r \in BagToSet(tasks) :
    ~r.claimed /\ r.pc = "done" /\ r.outcome = "failed"


\* ------------------------------------------------ DrivaliaWorker.processJob
\* The API worker (src/unnamed/part_004): the same poll/processJob, no session
\* of its own; per vehicle and (term, mileage) one drivaliaAPI.calculateQuote
\* call, no vehicle lookup and no rate-limit delay.

\* worker.start(): this.isRunning = true, then the initial poll and the timer
ApiStart(w) ==
  /\ phase[w] = "new"
  /\ phase' = [phase EXCEPT ![w] = "running"]
  /\ UNCHANGED <<automation_logs, background, jobs, quotes, processingJobs, cookies, isLoggedIn, sessionLive,
                 polls, nPolls, tasks, faults>>

\* for (const vehicle of job.vehicles): the vehicle's first quote call, if any
ApiNextVehicle(tk) ==
  IF tk.vi < Len(Job(tk).vehicles)
    THEN [tk EXCEPT !.pc = "apiCalculateQuote", !.vi = @ + 1, !.ti = 1, !.mi = 1]
    ELSE AfterVehicles(tk)

\* for (const term of terms) for (const mileage of mileages)
ApiNextRequest(tk) ==
  IF tk.mi < Len(Mileages(Job(tk).config))
    THEN [tk EXCEPT !.pc = "apiCalculateQuote", !.mi = @ + 1]
  ELSE IF tk.ti < Len(Terms(Job(tk).config))
    THEN [tk EXCEPT !.pc = "apiCalculateQuote", !.ti = @ + 1, !.mi = 1]
  ELSE ApiNextVehicle(tk)

\* await drivaliaJobsService.startProcessingJob(jobId) returns; the vehicle
\* loop follows at once
ApiStartProcessing(t) ==
  /\ At(t, "startProcessingJob")
  /\ jobs' = startProcessingJob(t.job)
  /\ Step(t, ApiNextVehicle([t EXCEPT !.claimed = TRUE]))
  /\ UNCHANGED <<automation_logs, background, quotes, phase, processingJobs, cookies, isLoggedIn, sessionLive, polls,
                 nPolls, faults>>

\* await this.drivaliaAPI.calculateQuote(...) returns a result with a
\* monthlyPayment: allQuotes.push(quote); successCount++
ApiCalculateQuote(t) ==
  /\ At(t, "apiCalculateQuote")
  /\ LET quote == [vehicle_id |-> Job(t).vehicles[t.vi],
                   term |-> Terms(Job(t).config)[t.ti],
                   mileage |-> Mileages(Job(t).config)[t.mi]]
     IN Step(t, ApiNextRequest(
                  [t EXCEPT !.allQuotes = Append(@, quote),
                            !.successCount = @ + 1, !.calls = @ + 1,
                            !.lastErr = "none", !.delayed = FALSE]))
  /\ UNCHANGED <<automation_logs, background, jobs, quotes, phase, processingJobs, cookies, isLoggedIn, sessionLive,
                 polls, nPolls, faults>>

\* the call returns null or a result without monthlyPayment: the if is not
\* entered and it has no else; the next request follows
ApiCalculateQuoteNoPrice(t) ==
  /\ At(t, "apiCalculateQuote")
  /\ faults < MaxFaults
  /\ faults' = faults + 1
  /\ Step(t, ApiNextRequest([t EXCEPT !.calls = @ + 1, !.lastErr = "noPrice",
                                      !.delayed = FALSE]))
  /\ UNCHANGED <<automation_logs, background, jobs, quotes, phase, processingJobs, cookies, isLoggedIn, sessionLive,
                 polls, nPolls>>

\* the call throws: catch (quoteError) { failureCount++ }
ApiCalculateQuoteThrows(t) ==
  /\ At(t, "apiCalculateQuote")
  /\ faults < MaxFaults
  /\ faults' = faults + 1
  /\ Step(t, ApiNextRequest([t EXCEPT !.failureCount = @ + 1, !.calls = @ + 1,
                                      !.quoteFails = @ + 1, !.lastErr = "permanent",
                                      !.delayed = FALSE]))
  /\ UNCHANGED <<automation_logs, background, jobs, quotes, phase, processingJobs, cookies, isLoggedIn, sessionLive,
                 polls, nPolls>>

\* the steps of an API worker
NextApi ==
  \/ \E w \in Workers : ApiStart(w)
  \/ \E w \in Workers : PollBegin(w)
  \/ \E p \in BagToSet(polls) : PollQuery(p)
  \/ \E p \in BagToSet(polls) : PollError(p)
  \/ \E p \in BagToSet(polls) : PollResume(p)
  \/ \E t \in BagToSet(tasks) : ApiStartProcessing(t)
  \/ \E t \in BagToSet(tasks) : StoreError(t)
  \/ \E t \in BagToSet(tasks) : ApiCalculateQuote(t)
  \/ \E t \in BagToSet(tasks) : ApiCalculateQuoteNoPrice(t)
  \/ \E t \in BagToSet(tasks) : ApiCalculateQuoteThrows(t)
  \/ \E t \in BagToSet(tasks) : InsertQuotes(t)
  \/ \E t \in BagToSet(tasks) : CompleteJob(t)
  \/ \E t \in BagToSet(tasks) : FailJob(t)
  \/ \E t \in BagToSet(tasks) : FailJobThrows(t)

\* one API worker instance running one job over its request matrix
SpecApi == InitJob /\ [][NextApi]_vars

EndedBy(w, r) ==
  IF r.w = w /\ r.pc # "done" THEN Finally(r, "crashed") ELSE r

Crash(w) ==
  /\ phase[w] = "running"
  /\ faults < MaxFaults
  /\ faults' = faults + 1
  /\ phase' = [phase EXCEPT ![w] = "crashed"]
  /\ processingJobs' = [processingJobs EXCEPT ![w] = {}]
  /\ cookies' = [cookies EXCEPT ![w] = "null"]
  /\ isLoggedIn' = [isLoggedIn EXCEPT ![w] = FALSE]
  /\ polls' = LET keep == {p \in BagToSet(polls) : p.w # w}
              IN [p \in keep |-> CopiesIn(p, polls)]
  /\ tasks' = LET S == BagToSet(tasks)
              IN [x \in {EndedBy(w, r) : r \in S} |->
                    BagSum(tasks, {r \in S : EndedBy(w, r) = x})]
  /\ UNCHANGED <<automation_logs, background, jobs, quotes, sessionLive, nPolls>>

\* Two worker instances on the same store, one pending job.
InitCrash ==
  /\ InitWorkers({1, 2})
  /\ jobs = (1 :> NewJob(<<1>>, [terms |-> "36", mileages |-> "10000"]))
  /\ nPolls = 1

NextCrash ==
  \/ NextJob
  \/ \E w \in Workers : Crash(w)

\* two worker instances, one job, either process may die
SpecCrash == InitCrash /\ [][NextCrash]_vars

\* the call that claimed job j died with its process and no call on j is left
Orphaned(j) ==
  /\ jobs[j].status = "processing"
  /\ \E r \in BagToSet(tasks) :
       r.job = j /\ r.claimed /\ r.pc = "done" /\ r.outcome = "crashed"
  /\ \A r \in BagToSet(tasks) : r.job = j => r.pc = "done"

\* C22: a job left in status processing by a worker that died stays in
\* processing: no step changes its row and no poll of any instance starts a
\* processJob call on it.
C22_CrashedJobStaysProcessing ==
  [][\A j \in DOMAIN jobs :
       Orphaned(j) =>
         /\ jobs'[j] = jobs[j]
         /\ \A r2 \in BagToSet(tasks') : r2.job = j => r2.pc = "done"]_vars


\* ------------------------------------------------- the poll timer keeps firing
\* setInterval(() => this.poll(), POLL_INTERVAL) without a bound on the number
\* of polls: a poll that finds the slots full returns at once (no state
\* changes), any other sends its getPendingJobs request. Store calls return
\* within the poll interval (5 s): when the timer fires at most MaxInFlight - 1
\* polls of the instance wait for an answer and none of its processJob calls
\* waits for a store write.
MaxInFlight == 1

StorePcs == {"startProcessingJob", "insertQuotes", "completeJob", "failJob"}

\* the timer's poll goes ahead only once every processJob call has ended
PollTickAfterJobs(w) ==
  /\ phase[w] = "running"
  /\ \A r \in BagToSet(tasks) : r.w = w => r.pc = "done"
  /\ BagSum(polls, {p \in BagToSet(polls) : p.w = w}) < MaxInFlight
  /\ polls' = With(polls, [w |-> w, state |-> "sent", pending |-> <<>>])
  /\ UNCHANGED <<automation_logs, background, jobs, quotes, phase, processingJobs, cookies, isLoggedIn,
                 sessionLive, nPolls, tasks, faults>>

\* the timer fires and poll() passes the size check
PollTick(w) ==
  /\ phase[w] = "running"
  /\ Cardinality(processingJobs[w]) < MAX_CONCURRENT_JOBS
  /\ BagSum(polls, {p \in BagToSet(polls) : p.w = w}) < MaxInFlight
  /\ \A r \in BagToSet(tasks) : r.w = w => r.pc \notin StorePcs
  /\ polls' = With(polls, [w |-> w, state |-> "sent", pending |-> <<>>])
  /\ UNCHANGED <<automation_logs, background, jobs, quotes, phase, processingJobs, cookies, isLoggedIn, sessionLive,
                 nPolls, tasks, faults>>

\* Three jobs of one vehicle and one quote request each: one more than the
\* instance has slots.
QueuedJobs ==
  SmallJobs @@ (3 :> NewJob(<<1>>, [terms |-> "24", mileages |-> "5000"]))

\* One worker instance, three pending jobs.
InitPoll ==
  /\ InitWorkers({1})
  /\ jobs = QueuedJobs
  /\ nPolls = 0

\* the steps of a poll() call under the unbounded timer
PollTimerStep ==
  \/ \E w \in Workers : Start(w)
  \/ \E w \in Workers : PollTick(w)
  \/ \E p \in BagToSet(polls) : PollQuery(p)
  \/ \E p \in BagToSet(polls) : PollError(p)
  \/ \E p \in BagToSet(polls) : PollResume(p)

NextPoll ==
  \/ PollTimerStep
  \/ JobStep

\* one worker instance, three jobs, the poll timer firing without end
SpecPoll == InitPoll /\ [][NextPoll]_vars

\* the same, where the timer keeps firing, every store and vendor call
\* eventually returns and the event loop runs every continuation that is ready
SpecPollFair == SpecPoll /\ WF_vars(PollTimerStep) /\ WF_vars(JobStep)


\* job j waits in status pending
Pending(j) == j \in DOMAIN jobs /\ jobs[j].status = "pending"

\* some processJob call has made the claim write (pending -> processing) of job j
EverClaimed(j) == \E r \in BagToSet(tasks) : r.job = j /\ r.claimed

\* job j was failed by a call whose claim write returned an error
FailedUnclaimed(j) ==
  /\ j \in DOMAIN jobs
  /\ jobs[j].status = "failed"
  /\ \E r \in BagToSet(tasks) :
       r.job = j /\ ~r.claimed /\ r.pc = "done" /\ r.outcome = "failed"

\* C21: every pending job is eventually claimed, also the one that has to
\* wait for a slot, as long as the poll timer fires and running jobs end.
C21_PendingJobsClaimed ==
  \A j \in {1, 2, 3} : Pending(j) ~> EverClaimed(j)

\* every pending job is eventually claimed, or failed at its claim write
PendingJobsPickedUp ==
  \A j \in {1, 2, 3} : Pending(j) ~> (EverClaimed(j) \/ FailedUnclaimed(j))


InitBusy ==
  /\ phase = [w \in Workers |-> IF w = 1 THEN "running" ELSE "absent"]
  /\ processingJobs = [w \in Workers |-> IF w = 1 THEN {1, 2} ELSE {}]
  /\ cookies = [w \in Workers |-> IF w = 1 THEN "set" ELSE "null"]
  /\ isLoggedIn = [w \in Workers |-> FALSE]
  /\ sessionLive = [w \in Workers |-> w = 1]
  /\ polls = EmptyBag
  /\ tasks = SetToBag({NewTask(1, 1), NewTask(1, 2)})
  /\ quotes = <<>>
  /\ faults = 0
  /\ automation_logs = <<>>
  /\ background = <<>>
  /\ jobs = SmallJobs
  /\ nPolls = 1

NextBusy ==
  \/ \E w \in Workers : PollSkip(w)
  \/ \E w \in Workers : PollBegin(w)
  \/ \E p \in BagToSet(polls) : PollQuery(p)
  \/ \E p \in BagToSet(polls) : PollError(p)
  \/ \E p \in BagToSet(polls) : PollResume(p)
  \/ JobStep

\* one worker instance with both slots taken, the timer's polls following
SpecBusy == InitBusy /\ [][NextBusy]_vars

\* C33: a poll that starts while processingJobs.size >= MAX_CONCURRENT_JOBS
\* sends no getPendingJobs request, starts no processJob call and leaves
\* processingJobs, the job rows and the quote rows as they are.
C33_FullPollDoesNothing ==
  [][\A w \in Workers :
       ( /\ phase[w] = "running"
         /\ \A v \in Workers \ {w} : phase[v] # "running"
         /\ Cardinality(processingJobs[w]) >= MAX_CONCURRENT_JOBS
         /\ nPolls' = nPolls + 1 )
       => /\ polls' = polls
          /\ tasks' = tasks
          /\ processingJobs' = processingJobs
          /\ jobs' = jobs
          /\ quotes' = quotes]_vars

\* C33 witness: since both slots were taken no call has ended, and a poll has
\* started and returned: both calls are still running, no request is in flight
C33_Witness ==
  /\ nPolls = 2
  /\ polls = EmptyBag
  /\ processingJobs[1] = {1, 2}
  /\ BagCardinality(tasks) = 2
  /\ \A r \in BagToSet(tasks) : r.pc # "done"
  /\ \A j \in DOMAIN jobs : jobs[j].status \in {"pending", "processing"}


\* ------------------------------------------------------ an empty vehicle list
\* One worker instance, a pending job without vehicles (vehicle_count 0) and a
\* younger job of one vehicle.
InitEmpty ==
  /\ InitWorkers({1})
  /\ jobs = (1 :> NewJob(<<>>, [terms |-> "36", mileages |-> "10000"]))
            @@ (2 :> SmallJobs[2])
  /\ nPolls = 1

\* one worker instance, the older of its two jobs has no vehicles
SpecEmpty == InitEmpty /\ [][Next]_vars

\* C32: a processJob call on a job without vehicles never is at a vehicle
\* lookup, a quote call or an insertQuotes call; it reaches completeJob after
\* its claim write, leaves it with the row completed and both counters 0, and
\* turns to failJob only when a store call or the login returned an error.
C32_EmptyJobCompletesWithZeroCounts ==
  [][\A r \in BagToSet(tasks), r2 \in BagToSet(tasks') :
       (Moves(r, r2) /\ Job(r).vehicles = <<>>)
         => /\ r2.pc \notin {"findVariant", "calculateQuote", "rateLimit", "insertQuotes"}
            /\ r2.calls = 0 /\ r2.allQuotes = <<>> /\ r2.persisted = 0
            /\ quotes' = quotes
            /\ r2.pc = "completeJob" => (r2.claimed /\ r.pc = "ensureLoggedIn")
            /\ r2.pc = "failJob" => faults' = faults + 1
            /\ r.pc = "completeJob" =>
                 \/ r2.pc = "failJob"
                 \/ /\ r2.pc = "done" /\ r2.outcome = "completed"
                    /\ jobs'[r.job].status = "completed"
                    /\ jobs'[r.job].success_count = 0
                    /\ jobs'[r.job].failure_count = 0]_vars

\* C32 witness: the job without vehicles was claimed and completed with both
\* counters 0 and without a quote row
C32_Witness ==
  /\ jobs[1].vehicles = <<>>
  /\ jobs[1].status = "completed"
  /\ jobs[1].started_at # "null"
  /\ jobs[1].success_count = 0 /\ jobs[1].failure_count = 0
  /\ \A i \in 1..Len(quotes) : quotes[i].job_id # 1
  /\ \E r \in BagToSet(tasks) :
       r.job = 1 /\ r.claimed /\ r.pc = "done" /\ r.outcome = "completed"


\* ------------------------------------- LeaseAnalysisDB: the in-process path
\* submitDrivaliaJob inserts an automation_logs row and starts
\* processDrivaliaJobInBackground (src/src/db.js), which logs in, runs
\* DrivaliaAPI.processBatch (src/unnamed/part_003) over the vehicles, stores
\* the quotes one by one and writes the counters; getDrivaliaJobs derives the
\* status it reports from the counters. A payload without vehicles is
\* rejected before anything is written.
MaxSubmits == 1

\* the CASE expression of getDrivaliaJobs' SELECT
ReportedStatus(row) ==
  IF row.failure_count > 0 THEN "failed"
  ELSE IF row.success_count = row.vehicle_count THEN "completed"
  ELSE IF row.success_count > 0 THEN "processing"
  ELSE "pending"

\* getDrivaliaJobs(): the status reported for the row id
getDrivaliaJobs(id) == ReportedStatus(automation_logs[id])

\* const terms = config.terms === 'ALL' ? [24, 36, 48, 60] : [Number(config.terms)]
BatchTerms(config) ==
  IF config.terms = ALL THEN <<24, 36, 48, 60>> ELSE <<ParseInt(config.terms)>>

\* const mileages = config.mileages === 'ALL' ? [5000, ...] : [Number(config.mileages)]
BatchMileages(config) ==
  IF config.mileages = ALL
    THEN <<5000, 8000, 10000, 12000, 15000, 20000, 25000, 30000>>
    ELSE <<ParseInt(config.mileages)>>

\* the quote requests processBatch makes when every lookup succeeds
BatchSize(run) ==
  Len(run.vehicles) * Len(BatchTerms(run.config)) * Len(BatchMileages(run.config))

\* INSERT INTO automation_logs (..., vehicle_count, 0, 0, 0, ...)
NewLog(vehicles) ==
  [vehicle_count |-> Len(vehicles), success_count |-> 0, failure_count |-> 0,
   duration_seconds |-> 0, error_details |-> "sample"]

\* the locals of a processDrivaliaJobInBackground call; results holds
\* result.success of each entry processBatch has pushed
NewRun(vehicles, config) ==
  [pc |-> "login", vehicles |-> vehicles, config |-> config,
   vi |-> 0, ti |-> 0, mi |-> 0, results |-> <<>>, k |-> 0,
   successCount |-> 0, failureCount |-> 0,
   aborted |-> FALSE]   \* history: the catch block was entered

\* submitDrivaliaJob(payload) with vehicles: the row is inserted, the
\* background call is started and not awaited
SubmitDrivaliaJob ==
  /\ Len(automation_logs) < MaxSubmits
  /\ \E vehicles \in {<<1>>, <<1, 2>>}, config \in JobConfigs :
       /\ automation_logs' = Append(automation_logs, NewLog(vehicles))
       /\ background' = Append(background, NewRun(vehicles, config))
  /\ UNCHANGED <<jobs, quotes, phase, processingJobs, cookies, isLoggedIn, sessionLive,
                 polls, nPolls, tasks, faults>>

\* the loop over results: an entry without success is counted at once
\* (failureCount++), an entry with a quote awaits storeDrivaliaQuote; after
\* the last entry the UPDATE of the counters is awaited
RECURSIVE StoreNext(_)
StoreNext(run) ==
  IF run.k >= Len(run.results) THEN [run EXCEPT !.pc = "update"]
  ELSE IF run.results[run.k + 1] THEN [run EXCEPT !.pc = "storeDrivaliaQuote", !.k = @ + 1]
  ELSE StoreNext([run EXCEPT !.k = @ + 1, !.failureCount = @ + 1])

\* processBatch: for (const vehicle of vehicles), then return results
BatchNextVehicle(run) ==
  IF run.vi < Len(run.vehicles)
    THEN [run EXCEPT !.pc = "findVariant", !.vi = @ + 1, !.ti = 0, !.mi = 0]
    ELSE StoreNext([run EXCEPT !.vi = 0, !.ti = 0, !.mi = 0])

\* processBatch: for (const term of terms) for (const mileage of mileages)
BatchNextRequest(run) ==
  IF run.mi < Len(BatchMileages(run.config))
    THEN [run EXCEPT !.pc = "calculateQuote", !.mi = @ + 1]
  ELSE IF run.ti < Len(BatchTerms(run.config))
    THEN [run EXCEPT !.pc = "calculateQuote", !.ti = @ + 1, !.mi = 1]
  ELSE BatchNextVehicle(run)

RunAt(id, pc) == id \in DOMAIN background /\ background[id].pc = pc

RunStep(id, run) == background' = [background EXCEPT ![id] = run]

\* await drivaliaAPI.login() returns; processBatch begins
BatchLogin(id) ==
  /\ RunAt(id, "login")
  /\ RunStep(id, BatchNextVehicle(background[id]))
  /\ UNCHANGED <<automation_logs, jobs, quotes, phase, processingJobs, cookies,
                 isLoggedIn, sessionLive, polls, nPolls, tasks, faults>>

\* a throw inside the try (login, or the UPDATE of the counters): catch
BatchAborts(id) ==
  /\ id \in DOMAIN background
  /\ background[id].pc \in {"login", "update"}
  /\ faults < MaxFaults
  /\ faults' = faults + 1
  /\ RunStep(id, [background[id] EXCEPT !.pc = "catch", !.aborted = TRUE])
  /\ UNCHANGED <<automation_logs, jobs, quotes, phase, processingJobs, cookies,
                 isLoggedIn, sessionLive, polls, nPolls, tasks>>

\* processBatch: await this.findVariant(...) returns
BatchFindVariant(id) ==
  /\ RunAt(id, "findVariant")
  /\ RunStep(id, [background[id] EXCEPT !.pc = "calculateQuote", !.ti = 1, !.mi = 1])
  /\ UNCHANGED <<automation_logs, jobs, quotes, phase, processingJobs, cookies,
                 isLoggedIn, sessionLive, polls, nPolls, tasks, faults>>

\* processBatch: findVariant throws; results.push({ success: false, vehicle })
BatchFindVariantThrows(id) ==
  /\ RunAt(id, "findVariant")
  /\ faults < MaxFaults
  /\ faults' = faults + 1
  /\ RunStep(id, BatchNextVehicle([background[id] EXCEPT
                                     !.results = Append(@, FALSE)]))
  /\ UNCHANGED <<automation_logs, jobs, quotes, phase, processingJobs, cookies,
                 isLoggedIn, sessionLive, polls, nPolls, tasks>>

\* processBatch: calculateQuote returns; results.push({ success: true, quote });
\* the 500 ms delay follows
BatchCalculateQuote(id) ==
  /\ RunAt(id, "calculateQuote")
  /\ RunStep(id, BatchNextRequest([background[id] EXCEPT
                                     !.results = Append(@, TRUE)]))
  /\ UNCHANGED <<automation_logs, jobs, quotes, phase, processingJobs, cookies,
                 isLoggedIn, sessionLive, polls, nPolls, tasks, faults>>

\* processBatch: calculateQuote throws; results.push({ success: false, ... })
BatchCalculateQuoteThrows(id) ==
  /\ RunAt(id, "calculateQuote")
  /\ faults < MaxFaults
  /\ faults' = faults + 1
  /\ RunStep(id, BatchNextRequest([background[id] EXCEPT
                                     !.results = Append(@, FALSE)]))
  /\ UNCHANGED <<automation_logs, jobs, quotes, phase, processingJobs, cookies,
                 isLoggedIn, sessionLive, polls, nPolls, tasks>>

\* await this.storeDrivaliaQuote(jobId, result.quote) returns; successCount++
StoreDrivaliaQuote(id) ==
  /\ RunAt(id, "storeDrivaliaQuote")
  /\ RunStep(id, StoreNext([background[id] EXCEPT !.successCount = @ + 1]))
  /\ UNCHANGED <<automation_logs, jobs, quotes, phase, processingJobs, cookies,
                 isLoggedIn, sessionLive, polls, nPolls, tasks, faults>>

\* storeDrivaliaQuote throws: catch (storeError) { failureCount++ }
StoreDrivaliaQuoteThrows(id) ==
  /\ RunAt(id, "storeDrivaliaQuote")
  /\ faults < MaxFaults
  /\ faults' = faults + 1
  /\ RunStep(id, StoreNext([background[id] EXCEPT !.failureCount = @ + 1]))
  /\ UNCHANGED <<automation_logs, jobs, quotes, phase, processingJobs, cookies,
                 isLoggedIn, sessionLive, polls, nPolls, tasks>>

\* UPDATE automation_logs SET success_count, failure_count, duration_seconds,
\* error_details WHERE id = jobId returns
UpdateLog(id) ==
  /\ RunAt(id, "update")
  /\ automation_logs' = [automation_logs EXCEPT
       ![id] = [@ EXCEPT !.success_count = background[id].successCount,
                         !.failure_count = background[id].failureCount,
                         !.duration_seconds = "secs",
                         !.error_details = "errors"]]
  /\ RunStep(id, [background[id] EXCEPT !.pc = "done"])
  /\ UNCHANGED <<jobs, quotes, phase, processingJobs, cookies, isLoggedIn, sessionLive,
                 polls, nPolls, tasks, faults>>

\* catch (error): UPDATE automation_logs SET failure_count = vehicles.length,
\* error_details WHERE id = jobId returns
CatchUpdateLog(id) ==
  /\ RunAt(id, "catch")
  /\ automation_logs' = [automation_logs EXCEPT
       ![id] = [@ EXCEPT !.failure_count = Len(background[id].vehicles),
                         !.error_details = "error"]]
  /\ RunStep(id, [background[id] EXCEPT !.pc = "done"])
  /\ UNCHANGED <<jobs, quotes, phase, processingJobs, cookies, isLoggedIn, sessionLive,
                 polls, nPolls, tasks, faults>>

\* the UPDATE of the catch block throws: the rejection is logged by
\* submitDrivaliaJob's .catch(console.error), the row stays as it is
CatchUpdateLogThrows(id) ==
  /\ RunAt(id, "catch")
  /\ faults < MaxFaults
  /\ faults' = faults + 1
  /\ RunStep(id, [background[id] EXCEPT !.pc = "done"])
  /\ UNCHANGED <<automation_logs, jobs, quotes, phase, processingJobs, cookies,
                 isLoggedIn, sessionLive, polls, nPolls, tasks>>

\* No worker instance is deployed: the jobs run in the API server's process.
InitDb ==
  /\ InitWorkers({})
  /\ jobs = <<>>
  /\ nPolls = 0

NextDb ==
  \/ SubmitDrivaliaJob
  \/ \E id \in DOMAIN background : BatchLogin(id)
  \/ \E id \in DOMAIN background : BatchAborts(id)
  \/ \E id \in DOMAIN background : BatchFindVariant(id)
  \/ \E id \in DOMAIN background : BatchFindVariantThrows(id)
  \/ \E id \in DOMAIN background : BatchCalculateQuote(id)
  \/ \E id \in DOMAIN background : BatchCalculateQuoteThrows(id)
  \/ \E id \in DOMAIN background : StoreDrivaliaQuote(id)
  \/ \E id \in DOMAIN background : StoreDrivaliaQuoteThrows(id)
  \/ \E id \in DOMAIN background : UpdateLog(id)
  \/ \E id \in DOMAIN background : CatchUpdateLog(id)
  \/ \E id \in DOMAIN background : CatchUpdateLogThrows(id)

\* the API server's in-process path: one submitted job
SpecDb == InitDb /\ [][NextDb]_vars

\* C31: for a job of the in-process path, getDrivaliaJobs reports 'completed'
\* once the run has finished with every quote request successful, reports
\* 'failed' only for a run that was aborted, and does not report 'failed' for
\* a finished run with at least one success and some failures.
C31_ReportedStatusMatchesRun ==
  \A id \in DOMAIN automation_logs :
    LET run == background[id]
    IN /\ ( /\ run.pc = "done" /\ ~run.aborted
            /\ run.failureCount = 0
            /\ run.successCount = BatchSize(run) )
          => getDrivaliaJobs(id) = "completed"
       /\ getDrivaliaJobs(id) = "failed" => run.aborted
       /\ (run.pc = "done" /\ run.successCount > 0 /\ run.failureCount > 0 /\ ~run.aborted)
          => getDrivaliaJobs(id) # "failed"

====
